---- MODULE Spec2Model ----
(***************************************************************************)
(* State-machine model of helper/aws_helper.py: class S3Connection, a thin *)
(* wrapper over a boto3 S3 client.  The S3 service is the environment: a   *)
(* set of buckets and a map from (bucket, key) to stored content; every    *)
(* backend call may succeed or fail.  Each caller runs one operation at a  *)
(* time; the two "put" operations (upload_to_s3, write_df) are modelled    *)
(* step by step (probe, serialise, write), the other operations make one   *)
(* backend round trip and are one step each.                               *)
(*                                                                         *)
(* The file uses three names it never binds: ClientError (lines 119, 301), *)
(* StringIO (lines 217, 310) and get_client (line 156).  Python resolves a *)
(* free name in the module namespace when the line runs and raises         *)
(* NameError if it is not there.  Which of the three resolve is therefore  *)
(* a property of the namespace the module runs in; the variable namespace  *)
(* holds the ones that do.  namespace = {} is the file exactly as written. *)
(***************************************************************************)
EXTENDS Integers, Sequences, FiniteSets, TLC

VARIABLES
  namespace,  \* the free names of the module that resolve at run time
  client,     \* self.client, the backend connection handle
  buckets,    \* backend: names of the existing buckets
  store,      \* backend: (bucket, key) -> stored content, Absent if none
  pc,         \* per caller: position inside its current operation
  call,       \* per caller: the operation it runs and its arguments
  ret,        \* per caller: how the operation ended (value or exception)
  buf,        \* per caller: the csv_buffer of the current call
  reqs        \* per caller: backend requests issued by the current call

vars == <<namespace, client, buckets, store, pc, call, ret, buf, reqs>>

(*************************** bounds of the model ***************************)

\* Keys one list_objects_v2 response carries (S3: 1000; scaled down).
PageSize == 1

\* Object keys of the bucket, and distinct payloads (file paths / DataFrames).
NumKeys == 2
NumData == 2

Callers == {"c1", "c2"}
Keys == 1..NumKeys
Data == 1..NumData

\* The caller of a program that makes one call at a time.
SeqCallers == {"c1"}

\* The key that callers running concurrently contend for.
ConcKeys == {1}

(******************************* values ************************************)

\* The bucket the callers work on, and the name create_bucket derives from it
\* when it is taken (line 50-52: the name, a dash, today's date).
Docs == "docs"
Dated(b) == "docs-YYYYMMDD"
BucketNames == {Docs, Dated(Docs)}
Targets == {Docs} \X Keys

Absent == <<>>

\* data.to_csv(csv_buffer, index=False); csv_buffer.getvalue()
ToCsv(df) == <<"csv", df>>

\* upload_file(data, ...): the bytes of the local file at path `data`
FileBytes(path) == <<"file", path>>

FreeNames == {"ClientError", "StringIO", "get_client"}

InitHandle == "boto3.client"
NewHandle == "get_client"

\* head_object on a missing key: a ClientError whose code is "404" on S3
\* itself; line 303 tests for "NoSuchKey", which a test double may raise.
NotFoundCodes == {"404", "NoSuchKey"}

\* ClientError codes of a call that fails for another reason, and a failure
\* that is no ClientError at all (a connection error).
ErrorCodes == {"AccessDenied"}
NonClientErrors == {"Transient"}
Failures == ErrorCodes \cup NonClientErrors

PutOps == {"upload_to_s3", "write_df"}
PassThroughOps == {"create_bucket", "get_all_buckets", "delete_bucket", "read_file",
                   "get_object_metadata", "copy_object", "download_file", "list_files",
                   "delete_file"}

NoCall == [op |-> "none", bucket |-> Docs, key |-> 1, data |-> 1, df |-> FALSE, dst |-> 1]

NoRet == [kind |-> "none", b |-> FALSE, items |-> {}, exc |-> ""]
RetBool(v) == [kind |-> "bool", b |-> v, items |-> {}, exc |-> ""]
RetList(S) == [kind |-> "list", b |-> FALSE, items |-> S, exc |-> ""]
RetObj == [kind |-> "object", b |-> FALSE, items |-> {}, exc |-> ""]
RetNone == [kind |-> "None", b |-> FALSE, items |-> {}, exc |-> ""]
Raised(e) == [kind |-> "raised", b |-> FALSE, items |-> {}, exc |-> e]

(******************************* backend ***********************************)

Target(c) == <<call[c].bucket, call[c].key>>

Present(t) == t[1] \in buckets /\ store[t] # Absent

KeysIn(b) == IF b = Docs /\ b \in buckets THEN {k \in Keys : store[<<b, k>>] # Absent} ELSE {}

\* The first page of a listing: the PageSize smallest keys.
FirstPage(S) == {k \in S : Cardinality({j \in S : j < k}) < PageSize}

\* What head_object / get_object / download_file can answer for target t.
HeadOutcomes(t) == (IF Present(t) THEN {"ok"} ELSE NotFoundCodes) \cup Failures

\* What put_object / upload_file can answer for a bucket.
WriteOutcomes(b) == (IF b \in buckets THEN {"ok"} ELSE {}) \cup {"WriteFailure"}

\* What a call on a bucket that needs the bucket to exist can answer.
BucketOutcomes(b) == (IF b \in buckets THEN {"ok"} ELSE {"NoSuchBucket"}) \cup Failures

ApplyWriteIfAbsent(t, body) ==
  IF store[t] = Absent THEN [store EXCEPT ![t] = body] ELSE store

\* A successful put_object / upload_file replaces the stored content.
ApplyWrite(t, body) == [store EXCEPT ![t] = body]

Req(api, res) == [api |-> api, res |-> res]

Writes(log) == {i \in 1..Len(log) : log[i].api \in {"put_object", "upload_file"}}

(***************************** initial state *******************************)

\* An S3Connection was constructed (lines 23-36) and the bucket exists.
Init ==
  /\ namespace \in SUBSET FreeNames
  /\ client = InitHandle
  /\ buckets = {Docs}
  /\ store = [t \in Targets |-> Absent]
  /\ pc = [c \in Callers |-> "idle"]
  /\ call = [c \in Callers |-> NoCall]
  /\ ret = [c \in Callers |-> NoRet]
  /\ buf = [c \in Callers |-> "none"]
  /\ reqs = [c \in Callers |-> <<>>]

(****************************** calls: shared ******************************)

IsPut(c) == call[c].op \in PutOps

\* Body of the write of caller c's current call.
Body(c) == IF call[c].df THEN ToCsv(call[c].data) ELSE FileBytes(call[c].data)

\* A caller enters operation op with the given arguments.
Enter(c, op, b, k, d, df, dst) ==
  /\ pc[c] = "idle"
  /\ call' = [call EXCEPT ![c] = [op |-> op, bucket |-> b, key |-> k, data |-> d,
                                  df |-> df, dst |-> dst]]

\* A put call starts: nothing was asked of the backend yet.
EnterPut(c, op, k, d, df) ==
  /\ Enter(c, op, Docs, k, d, df, 1)
  /\ pc' = [pc EXCEPT ![c] = "head"]
  /\ UNCHANGED <<namespace, client, buckets, store, ret, buf, reqs>>

\* The call of caller c ends with outcome r.
Finish(c, r) ==
  /\ pc' = [pc EXCEPT ![c] = "done"]
  /\ ret' = [ret EXCEPT ![c] = r]

\* A pass-through operation: one step from the call to its outcome r, having
\* issued the requests of log.
Forward(c, log, r) ==
  /\ Finish(c, r)
  /\ reqs' = [reqs EXCEPT ![c] = log]
  /\ UNCHANGED <<namespace, buf>>

Clean(log) == \A i \in 1..Len(log) : log[i].res \in {"ok"} \cup NotFoundCodes

(******************************* put: shared *******************************)

StoreOnFoundOverwrite(c) == ApplyWrite(Target(c), Body(c))

\* The backend after a probe that found the object: nothing is written.
StoreOnFound(c) == store

WriteLogRetry(c, api, r) ==
  IF r = "ok" THEN <<Req(api, r)>> ELSE <<Req(api, r), Req(api, r)>>

\* The requests the write step issues: one, whatever its outcome.
WriteLog(c, api, r) == <<Req(api, r)>>

WriteFailedSwallowed(c) == RetBool(FALSE)

\* A failed write is not caught: the exception leaves the call.
WriteFailed(c) == Raised("WriteFailure")

\* The write step of a put, with api put_object or upload_file; closes says
\* whether csv_buffer is closed on the way out.
PutStep(c, api, closes) ==
  \E r \in WriteOutcomes(call[c].bucket) :
    /\ reqs' = [reqs EXCEPT ![c] = reqs[c] \o WriteLog(c, api, r)]
    /\ store' = IF r = "ok" THEN ApplyWrite(Target(c), Body(c)) ELSE store
    /\ Finish(c, IF r = "ok" THEN RetBool(FALSE) ELSE WriteFailed(c))
    /\ buf' = [buf EXCEPT ![c] = IF closes /\ buf[c] = "open" THEN "closed" ELSE buf[c]]
    /\ UNCHANGED <<namespace, client, buckets, call>>

\* csv_buffer = StringIO(); data.to_csv(csv_buffer, index=False); seek(0)
CsvStep(c) ==
  /\ UNCHANGED <<namespace, client, buckets, store, call, reqs>>
  /\ IF "StringIO" \notin namespace
       THEN /\ Finish(c, Raised("NameError"))
            /\ UNCHANGED buf
       ELSE \E ok \in BOOLEAN :
              /\ buf' = [buf EXCEPT ![c] = "open"]
              /\ IF ok
                   THEN /\ pc' = [pc EXCEPT ![c] = "put"]
                        /\ UNCHANGED ret
                   ELSE Finish(c, Raised("SerializationFailure"))

(***************************** upload_to_s3 ********************************)

upload_to_s3_call(c, K) ==
  \E k \in K, d \in Data, df \in BOOLEAN : EnterPut(c, "upload_to_s3", k, d, df)

\* lines 208-214: head_object; any exception at all leads to the upload.
upload_to_s3_head(c) ==
  /\ pc[c] = "head" /\ call[c].op = "upload_to_s3"
  /\ \E r \in HeadOutcomes(Target(c)) :
       /\ reqs' = [reqs EXCEPT ![c] = Append(reqs[c], Req("head_object", r))]
       /\ IF r = "ok"
            THEN /\ Finish(c, RetBool(TRUE))
                 /\ store' = StoreOnFound(c)
            ELSE /\ pc' = [pc EXCEPT ![c] = IF call[c].df THEN "csv" ELSE "put"]
                 /\ UNCHANGED <<ret, store>>
  /\ UNCHANGED <<namespace, client, buckets, call, buf>>

\* lines 215-219
upload_to_s3_csv(c) ==
  /\ pc[c] = "csv" /\ call[c].op = "upload_to_s3"
  /\ CsvStep(c)

\* lines 220-226: put_object or upload_file; csv_buffer is never closed.
upload_to_s3_put(c) ==
  /\ pc[c] = "put" /\ call[c].op = "upload_to_s3"
  /\ PutStep(c, IF call[c].df THEN "put_object" ELSE "upload_file", FALSE)

(******************************* write_df **********************************)

write_df_call(c, K) ==
  \E k \in K, d \in Data : EnterPut(c, "write_df", k, d, TRUE)

\* lines 296-307: head_object; `except ClientError` needs the name to
\* resolve; only code "NoSuchKey" leads to the upload, the rest is re-raised;
\* an exception that is no ClientError is not caught.
write_df_head(c) ==
  /\ pc[c] = "head" /\ call[c].op = "write_df"
  /\ \E r \in HeadOutcomes(Target(c)) :
       /\ reqs' = [reqs EXCEPT ![c] = Append(reqs[c], Req("head_object", r))]
       /\ IF r = "ok"
            THEN /\ Finish(c, RetBool(TRUE))
                 /\ store' = StoreOnFound(c)
            ELSE /\ UNCHANGED store
                 /\ IF "ClientError" \notin namespace
                      THEN Finish(c, Raised("NameError"))
                      ELSE IF r = "NoSuchKey"
                             THEN /\ pc' = [pc EXCEPT ![c] = "csv"]
                                  /\ UNCHANGED ret
                             ELSE Finish(c, Raised(r))
  /\ UNCHANGED <<namespace, client, buckets, call, buf>>

\* lines 309-313: the buffer is created and filled before the try/finally.
write_df_csv(c) ==
  /\ pc[c] = "csv" /\ call[c].op = "write_df"
  /\ CsvStep(c)

\* lines 315-322: put_object inside try/finally: csv_buffer.close().
write_df_put(c) ==
  /\ pc[c] = "put" /\ call[c].op = "write_df"
  /\ PutStep(c, "put_object", TRUE)

(************************ pass-through operations **************************)

Answers == {"ok"} \cup Failures

\* lines 38-73: list_buckets is called outside the try; create_bucket inside.
create_bucket(c) ==
  /\ Enter(c, "create_bucket", Docs, 1, 1, FALSE, 1)
  /\ UNCHANGED <<client, store>>
  /\ \E l \in Answers :
       IF l # "ok"
         THEN /\ Forward(c, <<Req("list_buckets", l)>>, Raised(l))
              /\ UNCHANGED buckets
         ELSE LET name == IF Docs \in buckets THEN Dated(Docs) ELSE Docs
              IN \E r \in Answers :
                   /\ Forward(c, <<Req("list_buckets", l), Req("create_bucket", r)>>,
                              RetBool(r = "ok"))
                   /\ buckets' = IF r = "ok" THEN buckets \cup {name} ELSE buckets

\* lines 75-86: no try at all.
get_all_buckets(c) ==
  /\ Enter(c, "get_all_buckets", Docs, 1, 1, FALSE, 1)
  /\ UNCHANGED <<client, store, buckets>>
  /\ \E l \in Answers :
       Forward(c, <<Req("list_buckets", l)>>, IF l = "ok" THEN RetList(buckets) ELSE Raised(l))

\* lines 88-102: S3 deletes a bucket only when it exists and is empty.
delete_bucket(c) ==
  \E b \in BucketNames :
    /\ Enter(c, "delete_bucket", b, 1, 1, FALSE, 1)
    /\ UNCHANGED <<client, store>>
    /\ \E r \in (IF b \in buckets /\ KeysIn(b) = {} THEN {"ok"} ELSE {"BucketError"}) \cup Failures :
         /\ Forward(c, <<Req("delete_bucket", r)>>, RetBool(r = "ok"))
         /\ buckets' = IF r = "ok" THEN buckets \ {b} ELSE buckets

\* lines 104-129: get_object, then pd.read_csv, which may reject what is not
\* CSV; the first handler, `except ClientError`, needs the name to resolve
\* whatever the exception is.
read_file(c) ==
  \E k \in Keys :
    /\ Enter(c, "read_file", Docs, k, 1, FALSE, 1)
    /\ UNCHANGED <<client, store, buckets>>
    /\ \E r \in HeadOutcomes(<<Docs, k>>), parsed \in BOOLEAN :
         /\ parsed \/ (r = "ok" /\ store[<<Docs, k>>][1] = "file")
         /\ Forward(c, <<Req("get_object", r)>>,
                    IF r = "ok" /\ parsed THEN RetObj
                    ELSE IF "ClientError" \in namespace THEN RetNone
                    ELSE Raised("NameError"))

\* lines 148-164: self.client = get_client("s3") comes first, outside the try.
get_object_metadata(c) ==
  \E k \in Keys :
    /\ Enter(c, "get_object_metadata", Docs, k, 1, FALSE, 1)
    /\ UNCHANGED <<store, buckets>>
    /\ IF "get_client" \notin namespace
         THEN /\ Forward(c, <<>>, Raised("NameError"))
              /\ UNCHANGED client
         ELSE /\ client' = NewHandle
              /\ \E r \in HeadOutcomes(<<Docs, k>>) :
                   Forward(c, <<Req("head_object", r)>>, IF r = "ok" THEN RetObj ELSE RetNone)

\* lines 166-184
copy_object(c) ==
  \E k \in Keys, dst \in Keys :
    /\ Enter(c, "copy_object", Docs, k, 1, FALSE, dst)
    /\ UNCHANGED <<client, buckets>>
    /\ \E r \in HeadOutcomes(<<Docs, k>>) :
         /\ Forward(c, <<Req("copy_object", r)>>, RetBool(r = "ok"))
         /\ store' = IF r = "ok" THEN [store EXCEPT ![<<Docs, dst>>] = store[<<Docs, k>>]]
                     ELSE store

\* lines 229-244
download_file(c) ==
  \E k \in Keys :
    /\ Enter(c, "download_file", Docs, k, 1, FALSE, 1)
    /\ UNCHANGED <<client, store, buckets>>
    /\ \E r \in HeadOutcomes(<<Docs, k>>) :
         Forward(c, <<Req("download_file", r)>>, RetBool(r = "ok"))

\* lines 246-260: one list_objects_v2 call, its first page only.
list_files(c) ==
  /\ Enter(c, "list_files", Docs, 1, 1, FALSE, 1)
  /\ UNCHANGED <<client, store, buckets>>
  /\ \E r \in BucketOutcomes(Docs) :
       Forward(c, <<Req("list_objects_v2", r)>>,
               RetList(IF r = "ok" THEN FirstPage(KeysIn(Docs)) ELSE {}))

\* lines 262-276 (this definition replaces the one of lines 131-146)
delete_file(c) ==
  \E k \in Keys :
    /\ Enter(c, "delete_file", Docs, k, 1, FALSE, 1)
    /\ UNCHANGED <<client, buckets>>
    /\ \E r \in BucketOutcomes(Docs) :
         /\ Forward(c, <<Req("delete_object", r)>>, RetBool(r = "ok"))
         /\ store' = IF r = "ok" THEN [store EXCEPT ![<<Docs, k>>] = Absent] ELSE store

(****************************** the caller *********************************)

\* The caller takes the result; the call's frame is gone.
Return(c) ==
  /\ pc[c] = "done"
  /\ pc' = [pc EXCEPT ![c] = "idle"]
  /\ call' = [call EXCEPT ![c] = NoCall]
  /\ ret' = [ret EXCEPT ![c] = NoRet]
  /\ buf' = [buf EXCEPT ![c] = "none"]
  /\ reqs' = [reqs EXCEPT ![c] = <<>>]
  /\ UNCHANGED <<namespace, client, buckets, store>>

\* One call at a time (section 5 of the spec: single call-at-a-time,
\* synchronous): a single caller that starts a call when the last returned.
Next ==
  \E c \in SeqCallers :
    \/ upload_to_s3_call(c, Keys)
    \/ write_df_call(c, Keys)
    \/ upload_to_s3_head(c)
    \/ upload_to_s3_csv(c)
    \/ upload_to_s3_put(c)
    \/ write_df_head(c)
    \/ write_df_csv(c)
    \/ write_df_put(c)
    \/ create_bucket(c)
    \/ get_all_buckets(c)
    \/ delete_bucket(c)
    \/ read_file(c)
    \/ get_object_metadata(c)
    \/ copy_object(c)
    \/ download_file(c)
    \/ list_files(c)
    \/ delete_file(c)
    \/ Return(c)

Spec == Init /\ [][Next]_vars

\* Callers that parallelise their put calls on one target, which nothing in
\* the class prevents (no lock, no conditional put).
NextConc ==
  \E c \in Callers :
    \/ upload_to_s3_call(c, ConcKeys)
    \/ write_df_call(c, ConcKeys)
    \/ upload_to_s3_head(c)
    \/ upload_to_s3_csv(c)
    \/ upload_to_s3_put(c)
    \/ write_df_head(c)
    \/ write_df_csv(c)
    \/ write_df_put(c)
    \/ Return(c)

SpecConc == Init /\ [][NextConc]_vars

(******************************** claims ***********************************)

Done(c) == pc[c] = "done"

PutDone(c) == Done(c) /\ IsPut(c)

\* What the probe of the put call of c answered.
Probe(c) == reqs[c][1].res

WritesOf(c) == Cardinality(Writes(reqs[c]))

\* C1: a put call that has ended with no failing backend call reports
\* Uploaded (False) after exactly one write when its target was absent, and
\* AlreadyExists (True) after no write when it was present; so a sequence of
\* put calls on an absent target writes once, in its first call.
C1_PutSequence ==
  \A c \in Callers :
    (PutDone(c) /\ Clean(reqs[c]) /\ ret[c].exc # "SerializationFailure") =>
      IF Probe(c) \in NotFoundCodes
        THEN ret[c] = RetBool(FALSE) /\ WritesOf(c) = 1
        ELSE ret[c] = RetBool(TRUE) /\ WritesOf(c) = 0

\* C2: a put call whose probe failed for a reason other than not-found ends
\* in an error and has issued no write.
C2_ProbeErrorBlocksWrite ==
  \A c \in Callers :
    (PutDone(c) /\ Probe(c) \in Failures) =>
      ret[c].kind = "raised" /\ WritesOf(c) = 0

\* C3: the step in which a put call's probe finds the target present ends the
\* call with AlreadyExists (True) and leaves every stored object as it was.
C3_FastPathFrame ==
  [][\A c \in Callers :
       (pc[c] = "head" /\ IsPut(c) /\ pc'[c] # "head" /\ reqs'[c][1].res = "ok") =>
         (pc'[c] = "done" /\ ret'[c] = RetBool(TRUE) /\ store' = store)]_vars

\* C3 happens: a call ended on the fast path although its data differs from
\* what is stored, and another object is stored too.
C3_Witness ==
  \E c \in Callers :
    /\ PutDone(c) /\ Probe(c) = "ok" /\ ret[c] = RetBool(TRUE)
    /\ store[Target(c)] # Body(c)
    /\ \E t \in Targets \ {Target(c)} : Present(t)

\* C4: a put call issues at most one write request and no delete request;
\* when its write failed, that write is its last request and the call ends
\* in the failure.
C4_AtMostOneWrite ==
  \A c \in Callers :
    IsPut(c) =>
      /\ WritesOf(c) <= 1
      /\ \A i \in 1..Len(reqs[c]) : reqs[c][i].api # "delete_object"
      /\ \A i \in Writes(reqs[c]) :
           reqs[c][i].res # "ok" =>
             i = Len(reqs[c]) /\ Done(c) /\ ret[c] = Raised("WriteFailure")

\* C4 happens: a put call whose write failed after the probe said not-found.
C4_Witness ==
  \E c \in Callers :
    /\ PutDone(c) /\ Probe(c) \in NotFoundCodes
    /\ \E i \in Writes(reqs[c]) : reqs[c][i].res # "ok"

\* C5: a pass-through operation never ends in an exception.
C5_NoEscape ==
  \A c \in Callers :
    (Done(c) /\ call[c].op \in PassThroughOps) => ret[c].kind # "raised"

\* C6: when list_files returns after its backend call succeeded, it returns
\* a list holding exactly the keys stored in the bucket.
C6_ListIsStoredKeys ==
  \A c \in Callers :
    (Done(c) /\ call[c].op = "list_files" /\ reqs[c][1].res = "ok") =>
      ret[c].kind = "list" /\ ret[c].items = KeysIn(call[c].bucket)

====
